---- MODULE Spec2Model ----
(***************************************************************************)
(* simplyfire: a convenience layer over a hosted document database, in a   *)
(* server-side variant (FirestoreCloudService, packages/lib/functions/     *)
(* firestore.ts) and a client variant (FirestoreService, packages/ngx/     *)
(* services/firestore.service.ts).  The module models the chunking helper, *)
(* the single-document operations, the listing and the batched bulk        *)
(* operations of both variants against an abstract document store, the     *)
(* QueryBuilder with its materialization paths, the server-side singleton, *)
(* and the client facade's cache and join operator.                        *)
(***************************************************************************)
EXTENDS Integers, Sequences, FiniteSets, TLC

VARIABLES
  list,        \* arrayToChunks: the input list
  chunks,      \* arrayToChunks: the returned chunks
  chunksDone,  \* arrayToChunks: TRUE once the function has returned
  store,       \* the database: document id -> document body, for the documents that exist
  now,         \* the database clock: the last server time handed out
  nextId,      \* the database id generator: the next id doc() / addDoc() hands out
  batches,     \* the write batches created by the call in progress
  call,        \* the facade call in progress or last completed
  calls,       \* number of facade calls started
  store0,      \* the store as it was when the call in progress started
  builder,     \* a QueryBuilder: the fragments accumulated so far
  log,         \* the calls made on that QueryBuilder, in call order
  native,      \* the last materialization of that QueryBuilder
  origin,      \* the store as it was before the caller's first call
  instance,    \* FirestoreCloudService.instance, the static field
  cache,       \* FirestoreService.cache: key -> {lastRead, data}
  clock        \* Date.now() in the browser

chunkVars == <<list, chunks, chunksDone>>

dbVars == <<store, now, nextId>>

facadeVars == <<store, now, nextId, batches, call, calls, store0>>

queryVars == <<builder, log, native>>

serviceVars == <<origin, instance, cache, clock>>

vars ==
  <<list, chunks, chunksDone, store, now, nextId, batches, call, calls, store0,
    builder, log, native, origin, instance, cache, clock>>

----------------------------------------------------------------------------
(* Program constants and bounds *)

\* AbstractFirestoreApi.BATCH_MAX_WRITES
BATCH_MAX_WRITES == 500

\* longest list handed to arrayToChunks on its own
MaxListLen == 1001

----------------------------------------------------------------------------
(* utils/arrays.ts *)

Min(a, b) == IF a < b THEN a ELSE b

\* Math.ceil(n / d) for n >= 0, d > 0
Ceil(n, d) == (n + d - 1) \div d

\* Math.floor(n / d)
Floor(n, d) == n \div d

\* list.splice(0, size): the removed head and what is left of the list
splice(l, size) ==
  LET k == Min(size, Len(l))
  IN  [removed |-> SubSeq(l, 1, k), rest |-> SubSeq(l, k + 1, Len(l))]

\* [...Array(n)].map((_) => list.splice(0, size)): n successive splices
RECURSIVE mapSplice(_, _, _)
mapSplice(l, size, n) ==
  IF n = 0 THEN <<>>
  ELSE LET s == splice(l, size)
       IN  <<s.removed>> \o mapSplice(s.rest, size, n - 1)

\* the chunk count rounded down instead of up: the last, partial chunk is lost
arrayToChunksFloor(l, size) == mapSplice(l, size, Floor(Len(l), size))

arrayToChunks(l, size) == mapSplice(l, size, Ceil(Len(l), size))

----------------------------------------------------------------------------
(* Payloads and documents.  A payload or a document body is a function from *)
(* field names to values; a field the object does not have is outside its   *)
(* DOMAIN.  Values are integers: names are 1 and 2, server times are >= 1.  *)

EmptyDoc == [k \in {} |-> 0]

\* the sentinel serverTimestamp() returns; the database replaces it by the
\* time of the commit
ServerTimestamp == -1

\* the empty string as an id: the falsy id value (!id holds, id ?? x keeps it)
EmptyId == 0

\* a timestamp value the caller put into a payload itself
CallerTs == 0

HasField(data, f) == f \in DOMAIN data

\* const { [f]: _, ...rest } = data
Omit(data, f) == [k \in DOMAIN data \ {f} |-> data[k]]

\* data[f] = v
Assign(data, f, v) == [k \in DOMAIN data \cup {f} |-> IF k = f THEN v ELSE data[k]]

\* Object.assign({}, a, b), { ...a, ...b }: b's fields win
Merge(a, b) == [k \in DOMAIN a \cup DOMAIN b |-> IF k \in DOMAIN b THEN b[k] ELSE a[k]]

\* data[f] ??= v
AssignIfNullish(data, f, v) == IF HasField(data, f) THEN data ELSE Assign(data, f, v)

\* !id
IdFalsy(data) == ~HasField(data, "id") \/ data["id"] = EmptyId

\* id === undefined (what id ??= tests)
IdNullish(data) == ~HasField(data, "id")

----------------------------------------------------------------------------
(* The document database, an external collaborator: set with merge, update,  *)
(* delete, atomic batch commit, query.                                       *)

\* the database resolves the server-timestamp sentinel when it applies a write
Resolve(data, t) == [k \in DOMAIN data |-> IF data[k] = ServerTimestamp THEN t ELSE data[k]]

DocState(s, id) ==
  IF id \in DOMAIN s THEN [exists |-> TRUE, body |-> s[id]]
  ELSE [exists |-> FALSE, body |-> EmptyDoc]

\* one staged write applied to a document at server time t:
\* set(ref, data, {merge: true}) or delete(ref)
ApplyOp(d, w, t) ==
  IF w.op = "delete" THEN [exists |-> FALSE, body |-> EmptyDoc]
  ELSE [exists |-> TRUE,
        body |-> IF d.exists THEN Merge(d.body, Resolve(w.data, t))
                 ELSE Resolve(w.data, t)]

RECURSIVE ApplyOps(_, _, _)
ApplyOps(d, ws, t) ==
  IF ws = <<>> THEN d ELSE ApplyOps(ApplyOp(d, Head(ws), t), Tail(ws), t)

\* the store after the writes staged per document id are applied atomically
ApplyStaged(s, staged, t) ==
  LET touched == DOMAIN staged
      ids == (DOMAIN s \ touched)
               \cup {i \in touched : ApplyOps(DocState(s, i), staged[i], t).exists}
  IN  [i \in ids |-> IF i \in touched
                     THEN ApplyOps(DocState(s, i), staged[i], t).body
                     ELSE s[i]]

SetOp(data) == [op |-> "set", data |-> data]

\* batch.set(ref, {}, {merge: true}) where batch.delete(ref) is meant
DeleteOpAsSet == SetOp(EmptyDoc)

DeleteOp == [op |-> "delete", data |-> EmptyDoc]

\* DocumentReference.set(data, {merge: true}) / setDoc / addDoc at a known id
setDoc(s, id, data, t) == ApplyStaged(s, id :> <<SetOp(data)>>, t)

\* DocumentReference.update(data) / updateDoc: the document must exist
updateDoc(s, id, data, t) == [s EXCEPT ![id] = Merge(@, Resolve(data, t))]

\* DocumentReference.delete() / deleteDoc: no error when the document is absent
deleteDoc(s, id) == [i \in DOMAIN s \ {id} |-> s[i]]

----------------------------------------------------------------------------
(* Single-document writes of the two facades.  Each operator gives what the *)
(* method hands to the database: the target id, whether that id was         *)
(* generated, and the data written.                                         *)

\* FirestoreCloudService.upsert: the id is regenerated whatever the payload holds
CloudUpsertRegenerate(data, next) ==
  LET updata == Assign(AssignIfNullish(Omit(data, "id"), "createdTs", ServerTimestamp),
                       "updatedTs", ServerTimestamp)
  IN  [id |-> next, generated |-> TRUE, data |-> updata]

\* FirestoreCloudService.upsert
CloudUpsert(data, next) ==
  LET updata == Assign(AssignIfNullish(Omit(data, "id"), "createdTs", ServerTimestamp),
                       "updatedTs", ServerTimestamp)
  IN  IF IdFalsy(data)
      THEN [id |-> next, generated |-> TRUE, data |-> updata]
      ELSE [id |-> data["id"], generated |-> FALSE, data |-> updata]

\* FirestoreService.upsert: setDoc at the given id, addDoc otherwise
NgxUpsert(data, next) ==
  LET updata == Assign(AssignIfNullish(Omit(data, "id"), "createdTs", ServerTimestamp),
                       "updatedTs", ServerTimestamp)
  IN  IF ~IdFalsy(data)
      THEN [id |-> data["id"], generated |-> FALSE, data |-> updata]
      ELSE [id |-> next, generated |-> TRUE, data |-> updata]

\* FirestoreCloudService.update: the payload goes to the database as it is
CloudUpdate(data) == data

\* FirestoreService.update: delete data['id'], then updatedTs is added
NgxUpdate(data) == Merge(Omit(data, "id"), "updatedTs" :> ServerTimestamp)

\* FirestoreCloudService.doc: { id: snapshot.id, ...snapshot.data() } or null;
\* the id a reader gets for the document stored at `id`
CloudDocId(s, id) == IF HasField(s[id], "id") THEN s[id]["id"] ELSE id

\* what a read hands back: null, or an object
Null == [null |-> TRUE, value |-> EmptyDoc]

Value(d) == [null |-> FALSE, value |-> d]

\* doc() without the snapshot.exists test: { id: snapshot.id, ...snapshot.data() }
CloudDocNoExistsTest(s, id) == Value(Merge("id" :> id, DocState(s, id).body))

\* FirestoreCloudService.doc:
\* (snapshot.exists && { id: snapshot.id, ...snapshot.data() }) || null
CloudDoc(s, id) == IF id \in DOMAIN s THEN Value(Merge("id" :> id, s[id])) ELSE Null

\* AbstractFirestoreApi.getValueFromSnapshot: snapshot.exists ? snapshot.data() : null
getValueFromSnapshot(s, id) == IF id \in DOMAIN s THEN Value(s[id]) ELSE Null

----------------------------------------------------------------------------
(* QueryBuilder, as far as the bulk operations use it: the accumulated      *)
(* filters and limit, and their materialization.  A native query is the     *)
(* list of filters and the limit that were applied to the collection.       *)

\* no QueryBuilder passed (qb === undefined)
NoQb == [defined |-> FALSE, where |-> <<>>, limit |-> {}]

\* new QueryBuilder()
NewQueryBuilder == [defined |-> TRUE, where |-> <<>>, limit |-> {}]

\* QueryBuilder.where
qbWhere(qb, w) == [qb EXCEPT !.where = Append(@, w)]

\* QueryBuilder.limit
qbLimit(qb, n) == [qb EXCEPT !.limit = {n}]

\* QueryBuilder.exec: the filters, then the limit when this._limit is truthy
exec(qb) == [where |-> qb.where, limit |-> {n \in qb.limit : n # 0}]

\* the collection reference itself: no constraint
Unfiltered == [where |-> <<>>, limit |-> {}]

\* FirestoreCloudService.collectionSnapshot: (qb ? qb.exec(ref) : ref).get()
CloudCollectionQuery(qb) == IF qb.defined THEN exec(qb) ELSE Unfiltered

\* FirestoreService.collectionSnapshot: qb ??= new QueryBuilder(); getDocs(qb.exec(..))
NgxCollectionQuery(qb) == exec(IF qb.defined THEN qb ELSE NewQueryBuilder)

collectionQuery(variant, qb) ==
  IF variant = "cloud" THEN CloudCollectionQuery(qb) ELSE NgxCollectionQuery(qb)

\* the database's evaluation of a filter list (operator == only) on a body
Matches(body, ws) ==
  \A i \in 1..Len(ws) : HasField(body, ws[i][1]) /\ body[ws[i][1]] = ws[i][3]

\* the ids in lo..hi of the documents matching the filters, in id order
RECURSIVE matchingIds(_, _, _, _)
matchingIds(s, ws, lo, hi) ==
  IF lo > hi THEN <<>>
  ELSE IF lo = hi
       THEN IF lo \in DOMAIN s /\ Matches(s[lo], ws) THEN <<lo>> ELSE <<>>
       ELSE LET mid == (lo + hi) \div 2
            IN  matchingIds(s, ws, lo, mid) \o matchingIds(s, ws, mid + 1, hi)

\* the database's answer to a native query: the matching documents in the
\* default (id) order, cut at the limit; every id in use is at most maxId
getDocs(s, q, maxId) ==
  LET all == matchingIds(s, q.where, 1, maxId)
  IN  IF q.limit = {} THEN all
      ELSE SubSeq(all, 1, Min(Len(all), CHOOSE n \in q.limit : TRUE))

\* bulkDelete's default for maxSize
DefaultMaxSize == 1000

\* FirestoreCloudService.bulkDelete: the default builder only when none is given
CloudBulkDeleteQb(qb, maxSize) ==
  IF ~qb.defined THEN qbLimit(NewQueryBuilder, maxSize) ELSE qb

\* FirestoreService.bulkDelete: qb ??= new QueryBuilder(); qb.limit(maxSize)
NgxBulkDeleteQb(qb, maxSize) ==
  qbLimit(IF qb.defined THEN qb ELSE NewQueryBuilder, maxSize)

bulkDeleteQb(variant, qb, maxSize) ==
  IF variant = "cloud" THEN CloudBulkDeleteQb(qb, maxSize) ELSE NgxBulkDeleteQb(qb, maxSize)

----------------------------------------------------------------------------
(* Write batches and the chunk loop of the bulk operations *)

EmptyStaged == [i \in {} |-> <<>>]

\* a WriteBatch: the writes staged per document in staging order, the number
\* of staged writes, the number of commit() calls, where the commit stands
\* ("open": not committed, "inflight", "committed", "failed") and the write
\* time the database reports for a commit it applied
newBatch ==
  [staged |-> EmptyStaged, size |-> 0, commits |-> 0, status |-> "open", writeTime |-> 0]

MergeStaged(f, g) ==
  [i \in DOMAIN f \cup DOMAIN g |->
     (IF i \in DOMAIN f THEN f[i] ELSE <<>>) \o (IF i \in DOMAIN g THEN g[i] ELSE <<>>)]

\* ops[lo..hi] grouped by the id they are staged for, staging order kept
RECURSIVE stageAll(_, _, _, _)
stageAll(ids, ops, lo, hi) ==
  IF lo > hi THEN EmptyStaged
  ELSE IF lo = hi THEN ids[lo] :> <<ops[lo]>>
       ELSE LET mid == (lo + hi) \div 2
            IN  MergeStaged(stageAll(ids, ops, lo, mid), stageAll(ids, ops, mid + 1, hi))

\* chunk.forEach(... batch.set(ref, data, opts) / batch.delete(ref) ...)
stage(batch, ids, ops) ==
  [batch EXCEPT !.staged = MergeStaged(@, stageAll(ids, ops, 1, Len(ids))),
                !.size = @ + Len(ids)]

\* batch.commit(): the commit request is on its way
commit(batch) ==
  [batch EXCEPT !.commits = @ + 1,
                !.status = IF @ = "open" THEN "inflight" ELSE @]

\* bulkUpsert(list), cloud: id ??= generated id; ngx: if (id) ... else generated
NeedsId(variant, d) == IF variant = "cloud" THEN IdNullish(d) ELSE IdFalsy(d)

\* the ids bulkUpsert(list) gives to docs[lo..hi], `next` being the next
\* generated id
RECURSIVE AssignIds(_, _, _, _, _)
AssignIds(variant, docs, lo, hi, next) ==
  IF lo > hi THEN [ids |-> <<>>, next |-> next]
  ELSE IF lo = hi
       THEN IF NeedsId(variant, docs[lo])
            THEN [ids |-> <<next>>, next |-> next + 1]
            ELSE [ids |-> <<docs[lo]["id"]>>, next |-> next]
       ELSE LET mid == (lo + hi) \div 2
                l == AssignIds(variant, docs, lo, mid, next)
                r == AssignIds(variant, docs, mid + 1, hi, l.next)
            IN  [ids |-> l.ids \o r.ids, next |-> r.next]

\* bulkUpsert(list): what is staged for one document of the list
BulkDoc(d) ==
  Assign(AssignIfNullish(Omit(d, "id"), "createdTs", ServerTimestamp),
         "updatedTs", ServerTimestamp)

\* bulkUpsert({data, qb}): { updatedTs: timestamp, ...data.data }
QueryBulkDoc(data) == Merge("updatedTs" :> ServerTimestamp, data)

\* what one iteration of the chunk loop stages: the target ids and the writes
planChunk(c, chunk, next) ==
  IF c.op = "bulkDelete"
  THEN [ids |-> chunk, ops |-> [j \in 1..Len(chunk) |-> DeleteOp], next |-> next]
  ELSE IF c.form = "query"
       THEN [ids |-> chunk,
             ops |-> [j \in 1..Len(chunk) |-> SetOp(QueryBulkDoc(c.data))],
             next |-> next]
       ELSE LET a == AssignIds(c.variant, chunk, 1, Len(chunk), next)
            IN  [ids |-> a.ids,
                 ops |-> [j \in 1..Len(chunk) |-> SetOp(BulkDoc(chunk[j]))],
                 next |-> a.next]

\* the loop with one iteration per turn: after its first commit() the call is
\* suspended, the later chunks not yet staged
commitChunksAwaitEach(c, chunkList, acc) ==
  IF chunkList = <<>> THEN acc
  ELSE LET plan == planChunk(c, Head(chunkList), acc.next)
       IN  [batches |-> Append(acc.batches, commit(stage(newBatch, plan.ids, plan.ops))),
            promises |-> Append(acc.promises, Len(acc.batches) + 1),
            bulkIds |-> acc.bulkIds \o plan.ids,
            next |-> plan.next]

\* the loop with the batch created once, before the loop, and used by every
\* iteration
RECURSIVE commitChunksOneBatch(_, _, _)
commitChunksOneBatch(c, chunkList, acc) ==
  IF chunkList = <<>> THEN acc
  ELSE LET plan == planChunk(c, Head(chunkList), acc.next)
           batch == IF acc.batches = <<>> THEN newBatch ELSE acc.batches[1]
       IN  commitChunksOneBatch(c, Tail(chunkList),
             [batches |-> <<commit(stage(batch, plan.ids, plan.ops))>>,
              promises |-> Append(acc.promises, 1),
              bulkIds |-> acc.bulkIds \o plan.ids,
              next |-> plan.next])

\* the loop with bulkIds declared inside it: each iteration starts from an
\* empty id list
RECURSIVE commitChunksIdsPerChunk(_, _, _)
commitChunksIdsPerChunk(c, chunkList, acc) ==
  IF chunkList = <<>> THEN acc
  ELSE LET plan == planChunk(c, Head(chunkList), acc.next)
       IN  commitChunksIdsPerChunk(c, Tail(chunkList),
             [batches |-> Append(acc.batches, commit(stage(newBatch, plan.ids, plan.ops))),
              promises |-> Append(acc.promises, Len(acc.batches) + 1),
              bulkIds |-> plan.ids,
              next |-> plan.next])

\* the loop with each chunk's ids put in front of the ids collected so far
RECURSIVE commitChunksIdsInFront(_, _, _)
commitChunksIdsInFront(c, chunkList, acc) ==
  IF chunkList = <<>> THEN acc
  ELSE LET plan == planChunk(c, Head(chunkList), acc.next)
       IN  commitChunksIdsInFront(c, Tail(chunkList),
             [batches |-> Append(acc.batches, commit(stage(newBatch, plan.ids, plan.ops))),
              promises |-> Append(acc.promises, Len(acc.batches) + 1),
              bulkIds |-> plan.ids \o acc.bulkIds,
              next |-> plan.next])

\* for (const chunks of arrayToChunks(..)) { const batch = this.batch;
\*   chunks.forEach(..stage..); const p = batch.commit(); promises.push(p); }
\* The loop has no suspension point: it runs to its end in one turn.
RECURSIVE commitChunks(_, _, _)
commitChunks(c, chunkList, acc) ==
  IF chunkList = <<>> THEN acc
  ELSE LET plan == planChunk(c, Head(chunkList), acc.next)
       IN  commitChunks(c, Tail(chunkList),
             [batches |-> Append(acc.batches, commit(stage(newBatch, plan.ids, plan.ops))),
              promises |-> Append(acc.promises, Len(acc.batches) + 1),
              bulkIds |-> acc.bulkIds \o plan.ids,
              next |-> plan.next])

\* Promise.allSettled in place of Promise.all: a failed commit is swallowed
PromiseAllSettled(statuses) ==
  IF \E i \in 1..Len(statuses) : statuses[i] = "inflight" THEN "pending" ELSE "resolved"

\* await Promise.all(promises): rejected as soon as one promise is rejected,
\* resolved once all are resolved
PromiseAll(statuses) ==
  IF \E i \in 1..Len(statuses) : statuses[i] = "failed" THEN "rejected"
  ELSE IF \A i \in 1..Len(statuses) : statuses[i] = "committed" THEN "resolved"
       ELSE "pending"

----------------------------------------------------------------------------
(* QueryBuilder in full: the fragments it accumulates and its               *)
(* materializations.  A fragment that was never set is the empty set, a set *)
(* one the singleton of its value.  A native query is the sequence of the   *)
(* constraints applied to the reference, each with the arguments it was     *)
(* called with.  The value 0 stands for the falsy values (0, false, '').    *)

\* new QueryBuilder(): _where = [], _orderBy = [], _leftJoins = [], the rest undefined
NewQuerySpec ==
  [where |-> <<>>, orderBy |-> <<>>, joins |-> <<>>, limit |-> {}, limitToLast |-> {},
   startAt |-> {}, startAfter |-> {}, endAt |-> {}, endBefore |-> {}]

CursorKinds == <<"startAt", "startAfter", "endAt", "endBefore">>

\* QueryBuilder.where: this._where.push(where)
where(q, w) == [q EXCEPT !.where = Append(@, w)]

\* orderBy that also drops the limit set before it
orderByResetsLimit(q, o) == [q EXCEPT !.orderBy = Append(@, o), !.limit = {}]

\* QueryBuilder.orderBy: this._orderBy.push(orderBy)
orderBy(q, o) == [q EXCEPT !.orderBy = Append(@, o)]

\* QueryBuilder.leftJoin: this._leftJoins.push(leftJoin)
leftJoin(q, j) == [q EXCEPT !.joins = Append(@, j)]

\* limit that keeps the value of the first call
limitKeepsFirst(q, n) == IF q.limit = {} THEN [q EXCEPT !.limit = {n}] ELSE q

\* QueryBuilder.limit: this._limit = limit
limit(q, n) == [q EXCEPT !.limit = {n}]

\* QueryBuilder.limitToLast: this._limitToLast = limitToLast
limitToLast(q, n) == [q EXCEPT !.limitToLast = {n}]

\* QueryBuilder.startAt / startAfter / endAt / endBefore: this._<kind> = values
setCursor(q, kind, vals) == [q EXCEPT ![kind] = {vals}]

\* one call on the builder, as the log records it
applyCall(q, c) ==
  CASE c.kind = "where" -> where(q, c.args)
    [] c.kind = "orderBy" -> orderBy(q, c.args)
    [] c.kind = "leftJoin" -> leftJoin(q, c.args)
    [] c.kind = "limit" -> limit(q, c.args)
    [] c.kind = "limitToLast" -> limitToLast(q, c.args)
    [] OTHER -> setCursor(q, c.kind, c.args)

Truthy(v) == v # 0

Constraint(kind, args) == [kind |-> kind, args |-> args]

\* this._where.map((w) => where(...w)) and this._orderBy.map((o) => orderBy(...o))
mapConstraints(kind, frags) == [i \in 1..Len(frags) |-> Constraint(kind, frags[i])]

\* this._limit ? [limit(this._limit)] : []   (likewise limitToLast, both paths)
numberConstraint(kind, n) ==
  IF n # {} /\ Truthy(CHOOSE x \in n : TRUE)
  THEN <<Constraint(kind, <<CHOOSE x \in n : TRUE>>)>> ELSE <<>>

\* this._startAt?.every((i) => !!i) ? [startAt(...this._startAt)] : []
clientCursor(kind, c) ==
  IF c # {} /\ (\A i \in 1..Len(CHOOSE x \in c : TRUE) : Truthy((CHOOSE x \in c : TRUE)[i]))
  THEN <<Constraint(kind, CHOOSE x \in c : TRUE)>> ELSE <<>>

\* if (this._startAt) query = query.startAt(this._startAt): the array of
\* values is one argument
cloudCursor(kind, c) ==
  IF c # {} THEN <<Constraint(kind, <<CHOOSE x \in c : TRUE>>)>> ELSE <<>>

Materialized(cs) == [status |-> "ok", constraints |-> cs]

Thrown == [status |-> "error", constraints |-> <<>>]

\* QueryBuilder.exec with queryOps, in the browser
execClient(q) ==
  Materialized(
    mapConstraints("where", q.where) \o mapConstraints("orderBy", q.orderBy)
      \o numberConstraint("limit", q.limit)
      \o numberConstraint("limitToLast", q.limitToLast)
      \o clientCursor("startAt", q.startAt) \o clientCursor("startAfter", q.startAfter)
      \o clientCursor("endAt", q.endAt) \o clientCursor("endBefore", q.endBefore))

\* QueryBuilder.exec of the earlier variant: this._startAt.every(..) without
\* the ?. : a cursor that was never set is undefined and the call throws
execClientEarlier(q) ==
  IF \E i \in 1..4 : q[CursorKinds[i]] = {} THEN Thrown ELSE execClient(q)

\* QueryBuilder.execQueryForCloud (typeof window === 'undefined')
execQueryForCloud(q) ==
  Materialized(
    mapConstraints("where", q.where) \o mapConstraints("orderBy", q.orderBy)
      \o numberConstraint("limit", q.limit)
      \o numberConstraint("limitToLast", q.limitToLast)
      \o cloudCursor("startAt", q.startAt) \o cloudCursor("startAfter", q.startAfter)
      \o cloudCursor("endAt", q.endAt) \o cloudCursor("endBefore", q.endBefore))

\* QueryBuilder.build of packages/ngx/db: where(...w), orderBy(...o), and each
\* cursor, when set, passed as one argument: startAt(this._startAt)
build(q) ==
  Materialized(
    mapConstraints("where", q.where) \o mapConstraints("orderBy", q.orderBy)
      \o numberConstraint("limit", q.limit)
      \o numberConstraint("limitToLast", q.limitToLast)
      \o cloudCursor("startAt", q.startAt) \o cloudCursor("startAfter", q.startAfter)
      \o cloudCursor("endAt", q.endAt) \o cloudCursor("endBefore", q.endBefore))

\* QueryBuilder.buildQueryForCloud of packages/ngx/db: the reduce over where
\* and orderBy, then query.limit(..), and query.startAt(this._startAt) for
\* each cursor that is set
buildQueryForCloud(q) ==
  Materialized(
    mapConstraints("where", q.where) \o mapConstraints("orderBy", q.orderBy)
      \o numberConstraint("limit", q.limit)
      \o numberConstraint("limitToLast", q.limitToLast)
      \o cloudCursor("startAt", q.startAt) \o cloudCursor("startAfter", q.startAfter)
      \o cloudCursor("endAt", q.endAt) \o cloudCursor("endBefore", q.endBefore))

Paths == {"exec", "execEarlier", "execQueryForCloud", "build", "buildQueryForCloud"}

materialize(path, q) ==
  CASE path = "exec" -> execClient(q)
    [] path = "execEarlier" -> execClientEarlier(q)
    [] path = "execQueryForCloud" -> execQueryForCloud(q)
    [] path = "buildQueryForCloud" -> buildQueryForCloud(q)
    [] OTHER -> build(q)

\* nothing materialized
NoNative == [path |-> "none", status |-> "none", constraints |-> <<>>]

IdleQuery == builder = NewQuerySpec /\ log = <<>> /\ native = NoNative

\* private static instance: FirestoreCloudService = null
\* serial: which construction the object comes from; inits: how often
\* initialize ran on it; settings: what db.settings was last called with
NoInstance == [created |-> FALSE, serial |-> 0, inits |-> 0, settings |-> 0]

\* FirestoreSettings values: {} (the default) and another
SettingsValues == {0, 1}

\* this.instance ??= new this()
newIfNullish(inst) ==
  IF inst.created THEN inst ELSE [inst EXCEPT !.created = TRUE, !.serial = @ + 1]

\* initialize(admin, settings): admin.initializeApp(); this.db = admin.firestore();
\* this.db.settings(settings); this.admin = admin
initialize(inst, settings) == [inst EXCEPT !.inits = @ + 1, !.settings = settings]

\* FirestoreCloudService.getInstance(admin, settings = {})
getInstance(inst, settings) == initialize(newIfNullish(inst), settings)

\* private cache = new Map<string, any>()
EmptyCache == [k \in {} |-> 0]

\* no facade was created and nothing was read yet
IdleService == origin = store /\ instance = NoInstance /\ cache = EmptyCache /\ clock = 0

----------------------------------------------------------------------------
(* Bounds and inputs *)

\* facade calls in one behaviour of Spec
MaxCalls == 2

\* most chunks a list handed to a bulk operation in SpecBulk splits into
MaxChunks == 2

\* ids the caller writes into payloads and paths; generated ids are larger
CallerIds == {1, 2}

Variants == {"cloud", "ngx"}

NewDoc == "name" :> 1

DocX == ("id" :> 1) @@ ("name" :> 2)

DocY == ("id" :> 2) @@ ("name" :> 1)

\* a document as read back and written again: it carries its timestamps
DocXTs == ("id" :> 1) @@ ("name" :> 1) @@ ("createdTs" :> CallerTs) @@ ("updatedTs" :> CallerTs)

DocEmptyId == ("id" :> EmptyId) @@ ("name" :> 1)

UpsertPayloads == {NewDoc, DocX, DocY, DocXTs, DocEmptyId}

UpdatePayloads ==
  {"name" :> 2, ("id" :> 2) @@ ("name" :> 2), ("name" :> 2) @@ ("updatedTs" :> CallerTs)}

\* lists of documents with no id, with an id, with the empty id
SmallLists ==
  {<<>>, <<NewDoc>>, <<DocX>>, <<DocXTs>>, <<NewDoc, DocY>>, <<DocX, DocXTs>>,
   <<DocEmptyId>>, <<NewDoc, DocEmptyId>>}

Qbs == {NoQb, qbWhere(NewQueryBuilder, <<"name", "==", 1>>), qbLimit(NewQueryBuilder, 1)}

\* n documents as this layer writes them: no id field, both timestamps
Prefilled(n) ==
  [i \in 1..n |-> ("name" :> (1 + ((i + 1) % 2))) @@ ("createdTs" :> 1) @@ ("updatedTs" :> 1)]

\* the first id the generator hands out: above the caller's ids and the ids in use
FirstFreeId(n) == 1 + (IF n > 2 THEN n ELSE 2)

\* list lengths around the chunk boundaries
BulkLens ==
  {0, 1} \cup {k * BATCH_MAX_WRITES + r : k \in 1..(MaxChunks - 1), r \in {0, 1}}

Fill(n) == [i \in 1..n |-> NewDoc]

BigLists ==
  {Fill(n) : n \in BulkLens}
    \cup {<<DocX>> \o Fill(n - 1) : n \in BulkLens \ {0}}
    \cup {<<DocX>> \o Fill(n - 2) \o <<DocXTs>> : n \in BulkLens \ {0, 1}}

BulkStoreSizes == {0, 1, BATCH_MAX_WRITES + 1}

----------------------------------------------------------------------------
(* The facade calls.  The caller issues one call at a time.  A single-      *)
(* document call is one step: its only suspension point is the database     *)
(* write it hands over.  A bulk call runs to its first await in one step;   *)
(* the commits it started complete, in any order, in steps of their own.    *)

IdleCall ==
  [op |-> "none", form |-> "none", variant |-> "none", pc |-> "idle",
   target |-> 0, data |-> EmptyDoc, qb |-> NoQb, docs |-> <<>>, items |-> <<>>,
   n |-> 0, bulkIds |-> <<>>, promises |-> <<>>, outcome |-> "none",
   ret |-> 0, generated |-> FALSE, next0 |-> 0, maxSize |-> 0,
   listed |-> <<>>, fetched |-> Null,
   prev |-> [op |-> "none", target |-> 0, outcome |-> "none"],
   delivered |-> [kind |-> "undefined", docs |-> <<>>], lookups |-> <<>>,
   source |-> <<>>, joined |-> <<>>, qb0 |-> NoQb]

IdleChunks == list = <<>> /\ chunks = <<>> /\ chunksDone = FALSE

IdleFacade ==
  /\ store = EmptyDoc
  /\ now = 1
  /\ nextId = FirstFreeId(0)
  /\ batches = <<>>
  /\ call = IdleCall
  /\ calls = 0
  /\ store0 = EmptyDoc

NextCallAllowed == call.pc \in {"idle", "done"} /\ calls < MaxCalls

FirstCall == call.pc = "idle"

upsertPlan(variant, data, next) ==
  IF variant = "cloud" THEN CloudUpsert(data, next) ELSE NgxUpsert(data, next)

updateData(variant, data) ==
  IF variant = "cloud" THEN CloudUpdate(data) ELSE NgxUpdate(data)

Upsert(variant, data) ==
  /\ NextCallAllowed
  /\ LET plan == upsertPlan(variant, data, nextId)
     IN  /\ store' = setDoc(store, plan.id, plan.data, now + 1)
         /\ nextId' = IF plan.generated THEN nextId + 1 ELSE nextId
         /\ call' = [IdleCall EXCEPT !.op = "upsert", !.variant = variant, !.pc = "done",
                                     !.data = data, !.target = plan.id, !.ret = plan.id,
                                     !.generated = plan.generated, !.outcome = "resolved",
                                     !.next0 = nextId]
  /\ now' = now + 1
  /\ batches' = <<>>
  /\ calls' = calls + 1
  /\ store0' = store
  /\ UNCHANGED <<chunkVars, queryVars, serviceVars>>

\* FirestoreCloudService.collection: docs.map((doc) => ({ id: doc.id, ...doc.data() }))
CloudCollection(s, ids) == [j \in 1..Len(ids) |-> Merge("id" :> ids[j], s[ids[j]])]

\* FirestoreService.collectionSnapshotChanges:
\* changes.map((c) => Object.assign({}, c.doc.data(), { id: c.doc.id }))
NgxCollection(s, ids) == [j \in 1..Len(ids) |-> Merge(s[ids[j]], "id" :> ids[j])]

\* listing a collection: the query is run and every delivered document mapped
Collection(variant, qb) ==
  /\ NextCallAllowed
  /\ LET ids == getDocs(store, collectionQuery(variant, qb), nextId - 1)
     IN  call' = [IdleCall EXCEPT !.op = "collection", !.variant = variant, !.pc = "done",
                                  !.qb = qb, !.items = ids, !.outcome = "resolved",
                                  !.next0 = nextId,
                                  !.listed = IF variant = "cloud"
                                             THEN CloudCollection(store, ids)
                                             ELSE NgxCollection(store, ids)]
  /\ batches' = <<>>
  /\ calls' = calls + 1
  /\ store0' = store
  /\ UNCHANGED <<store, now, nextId, chunkVars, queryVars, serviceVars>>

\* FirestoreCloudService.getInstance(admin, settings) called by the process
GetInstance(settings) ==
  /\ NextCallAllowed
  /\ instance' = getInstance(instance, settings)
  /\ call' = [IdleCall EXCEPT !.op = "getInstance", !.variant = "cloud", !.pc = "done",
                              !.outcome = "resolved", !.next0 = nextId,
                              !.ret = getInstance(instance, settings).serial]
  /\ batches' = <<>>
  /\ calls' = calls + 1
  /\ store0' = store
  /\ UNCHANGED <<store, now, nextId, chunkVars, queryVars, origin, cache, clock>>

\* FirestoreCloudService.doc(path): the snapshot is read and mapped
Doc(id) ==
  /\ NextCallAllowed
  /\ call' = [IdleCall EXCEPT !.op = "doc", !.variant = "cloud", !.pc = "done",
                              !.target = id, !.outcome = "resolved", !.next0 = nextId,
                              !.fetched = CloudDoc(store, id)]
  /\ batches' = <<>>
  /\ calls' = calls + 1
  /\ store0' = store
  /\ UNCHANGED <<store, now, nextId, chunkVars, queryVars, serviceVars>>

\* getValueFromSnapshot(await docRef(path).get())
GetValueFromSnapshot(variant, id) ==
  /\ NextCallAllowed
  /\ call' = [IdleCall EXCEPT !.op = "getValueFromSnapshot", !.variant = variant,
                              !.pc = "done", !.target = id, !.outcome = "resolved",
                              !.next0 = nextId,
                              !.fetched = getValueFromSnapshot(store, id)]
  /\ batches' = <<>>
  /\ calls' = calls + 1
  /\ store0' = store
  /\ UNCHANGED <<store, now, nextId, chunkVars, queryVars, serviceVars>>

\* update of a document that does not exist is rejected by the database
Update(variant, id, data) ==
  /\ NextCallAllowed
  /\ IF id \in DOMAIN store
     THEN /\ store' = updateDoc(store, id, updateData(variant, data), now + 1)
          /\ now' = now + 1
          /\ call' = [IdleCall EXCEPT !.op = "update", !.variant = variant, !.pc = "done",
                                      !.data = data, !.target = id, !.outcome = "resolved",
                                      !.next0 = nextId]
     ELSE /\ UNCHANGED <<store, now>>
          /\ call' = [IdleCall EXCEPT !.op = "update", !.variant = variant, !.pc = "done",
                                      !.data = data, !.target = id, !.outcome = "rejected",
                                      !.next0 = nextId]
  /\ batches' = <<>>
  /\ calls' = calls + 1
  /\ store0' = store
  /\ UNCHANGED <<nextId, chunkVars, queryVars, serviceVars>>

\* the call that came before the one in progress
Previous == [op |-> call.op, target |-> call.target, outcome |-> call.outcome]

\* delete with the precondition of update: rejected when no document is stored
DeleteRequiresDocument(variant, id) ==
  /\ NextCallAllowed
  /\ store' = deleteDoc(store, id)
  /\ call' = [IdleCall EXCEPT !.op = "delete", !.variant = variant, !.pc = "done",
                              !.target = id, !.next0 = nextId, !.prev = Previous,
                              !.outcome = IF id \in DOMAIN store THEN "resolved"
                                          ELSE "rejected"]
  /\ batches' = <<>>
  /\ calls' = calls + 1
  /\ store0' = store
  /\ UNCHANGED <<now, nextId, chunkVars, queryVars, serviceVars>>

\* delete(path): await this.docRef(path).delete() / deleteDoc(this.docRef(path))
Delete(variant, id) ==
  /\ NextCallAllowed
  /\ store' = deleteDoc(store, id)
  /\ call' = [IdleCall EXCEPT !.op = "delete", !.variant = variant, !.pc = "done",
                              !.target = id, !.outcome = "resolved", !.next0 = nextId,
                              !.prev = Previous]
  /\ batches' = <<>>
  /\ calls' = calls + 1
  /\ store0' = store
  /\ UNCHANGED <<now, nextId, chunkVars, queryVars, serviceVars>>

NoBatches == [batches |-> <<>>, promises |-> <<>>, bulkIds |-> <<>>, next |-> nextId]

\* this.docRef(`${path}/${id}`) of the server-side facade with the empty
\* string as id: the path names a collection, not a document, and the
\* database client throws
docRefThrows(variant, d) ==
  variant = "cloud" /\ HasField(d, "id") /\ d["id"] = EmptyId

\* bulkUpsert(path, documents[]): no await before the loop.  When docRef
\* throws at element k the async method rejects there: the chunks before k's
\* chunk are staged and their commits started, k's own chunk is never
\* committed.
BulkUpsertList(can, variant, docs) ==
  /\ can
  /\ LET c == [IdleCall EXCEPT !.op = "bulkUpsert", !.form = "list", !.variant = variant,
                               !.docs = docs, !.n = Len(docs), !.next0 = nextId]
         chunkList == arrayToChunks(docs, BATCH_MAX_WRITES)
         bad == {j \in 1..Len(docs) : docRefThrows(variant, docs[j])}
     IN  IF bad = {}
         THEN LET r == commitChunks(c, chunkList, NoBatches)
              IN  /\ batches' = r.batches
                  /\ nextId' = r.next
                  /\ call' = [c EXCEPT !.pc = "await", !.bulkIds = r.bulkIds,
                                       !.promises = r.promises, !.outcome = "pending"]
         ELSE LET k == CHOOSE j \in bad : \A m \in bad : j <= m
                  full == Ceil(k, BATCH_MAX_WRITES) - 1
                  r == commitChunks(c, SubSeq(chunkList, 1, full), NoBatches)
                  part == AssignIds(variant, docs, full * BATCH_MAX_WRITES + 1, k - 1, r.next)
              IN  /\ batches' = r.batches
                  /\ nextId' = part.next
                  /\ call' = [c EXCEPT !.pc = "done", !.bulkIds = r.bulkIds \o part.ids,
                                       !.promises = r.promises, !.outcome = "rejected"]
  /\ calls' = calls + 1
  /\ store0' = store
  /\ UNCHANGED <<store, now, chunkVars, queryVars, serviceVars>>

\* bulkUpsert(path, {data, qb}) and bulkDelete(path, qb, maxSize) up to
\* await this.collectionSnapshot(..): the query is built and sent.  qb0 is
\* the builder as the caller passed it, qb the builder the method used: the
\* caller's own object when one was passed.
BulkQueryStart(can, op, variant, qb, data, maxSize) ==
  /\ can
  /\ LET used == IF op = "bulkDelete" THEN bulkDeleteQb(variant, qb, maxSize) ELSE qb
     IN  call' = [IdleCall EXCEPT !.op = op, !.form = "query", !.variant = variant,
                                  !.data = data, !.qb = used, !.qb0 = qb,
                                  !.pc = "snapshot",
                                  !.maxSize = maxSize,
                                  !.items = getDocs(store, collectionQuery(variant, used),
                                                    nextId - 1),
                                  !.outcome = "pending", !.next0 = nextId]
  /\ batches' = <<>>
  /\ calls' = calls + 1
  /\ store0' = store
  /\ UNCHANGED <<store, now, nextId, chunkVars, queryVars, serviceVars>>

\* the snapshot has arrived: the chunk loop over snapshot.docs
BulkQueryLoop ==
  /\ call.pc = "snapshot"
  /\ LET r == commitChunks(call, arrayToChunks(call.items, BATCH_MAX_WRITES), NoBatches)
     IN  /\ batches' = r.batches
         /\ nextId' = r.next
         /\ call' = [call EXCEPT !.pc = "await", !.n = Len(call.items),
                                 !.bulkIds = r.bulkIds, !.promises = r.promises]
  /\ UNCHANGED <<store, now, calls, store0, chunkVars, queryVars, serviceVars>>

\* the database applies a batch atomically and acknowledges it
CommitOk(p) ==
  /\ batches[p].status = "inflight"
  /\ store' = ApplyStaged(store, batches[p].staged, now + 1)
  /\ now' = now + 1
  /\ batches' = [batches EXCEPT ![p].status = "committed", ![p].writeTime = now + 1]
  /\ UNCHANGED <<nextId, call, calls, store0, chunkVars, queryVars, serviceVars>>

\* the commit fails: nothing of the batch is applied
CommitFail(p) ==
  /\ batches[p].status = "inflight"
  /\ batches' = [batches EXCEPT ![p].status = "failed"]
  /\ UNCHANGED <<store, now, nextId, call, calls, store0, chunkVars, queryVars, serviceVars>>

PromiseStatuses == [i \in 1..Len(call.promises) |-> batches[call.promises[i]].status]

\* await Promise.all(promises) settles: return bulkIds, or the rejection
BulkSettle ==
  /\ call.pc = "await"
  /\ PromiseAll(PromiseStatuses) # "pending"
  /\ call' = [call EXCEPT !.pc = "done", !.outcome = PromiseAll(PromiseStatuses)]
  /\ UNCHANGED <<store, now, nextId, batches, calls, store0, chunkVars, queryVars, serviceVars>>

----------------------------------------------------------------------------
(* The client facade's reads: value streams, the in-memory cache and the    *)
(* join operator.  What a stream delivers is tagged with its kind:          *)
(* "undefined", "null", "doc" (one object) or "list" (an array of objects). *)

\* const CACHE_MAX_AGE = 5 * 60 * 1000
CACHE_MAX_AGE == 300000

Undefined == [kind |-> "undefined", docs |-> <<>>]

NullData == [kind |-> "null", docs |-> <<>>]

DocData(d) == [kind |-> "doc", docs |-> <<d>>]

ListData(ds) == [kind |-> "list", docs |-> ds]

\* cache keys: the document path; the collection path + JSON.stringify(qb)
\* for a builder holding where(documentId(), 'in', ids); the collection path
DocKey(id) == [kind |-> "doc", ids |-> <<id>>]

InKey(ids) == [kind |-> "in", ids |-> ids]

AllKey == [kind |-> "all", ids |-> <<>>]

\* docValueChanges: docData(docRef, { idField: 'id' }); nothing to deliver
\* for a document that does not exist
docValueChanges(s, id) ==
  IF id \in DOMAIN s THEN DocData(Merge(s[id], "id" :> id)) ELSE Undefined

\* collectionValueChanges: collectionData(qb.exec(..), { idField: 'id' }), for
\* no builder and for where(documentId(), 'in', ids)
collectionValueChanges(s, key, maxId) ==
  LET all == matchingIds(s, <<>>, 1, maxId)
      sel == IF key.kind = "all" THEN all
             ELSE SelectSeq(all, LAMBDA i : \E k \in 1..Len(key.ids) : key.ids[k] = i)
  IN  ListData(NgxCollection(s, sel))

\* the source stream handed to fetchFromCache for a key
sourceOf(s, key, maxId) ==
  IF key.kind = "doc" THEN docValueChanges(s, key.ids[1])
  ELSE collectionValueChanges(s, key, maxId)

\* maxAge === 0 || !cached || (maxAge && Date.now() - cached.lastRead > maxAge);
\* maxAge is {} when the argument is undefined
mustRead(c, key, maxAge, t) ==
  \/ maxAge = {0}
  \/ key \notin DOMAIN c
  \/ \E m \in maxAge : m # 0 /\ t - c[key].lastRead > m

\* FirestoreService.fetchFromCache: the data delivered, whether the database
\* was read, and the cache afterwards
fetchFromCache(c, s, key, maxAge, t, maxId) ==
  IF mustRead(c, key, maxAge, t)
  THEN LET data == sourceOf(s, key, maxId)
       IN  [data |-> data, read |-> TRUE,
            cache |-> (key :> [lastRead |-> t, data |-> data]) @@ c]
  ELSE [data |-> c[key].data, read |-> FALSE, cache |-> c]

\* the value of an item's foreign-key field: none (the field is missing or
\* falsy), one id, or an array of ids
NoKey == [kind |-> "none", ids |-> <<>>]

SingleKey(id) == [kind |-> "single", ids |-> <<id>>]

ArrayKey(ids) == [kind |-> "array", ids |-> ids]

\* the alias field of an item: not a property of the object, or a property
\* with the data assigned to it
Unset == [set |-> FALSE, data |-> Undefined]

Assigned(data) == [set |-> TRUE, data |-> data]

Item(id, fk) == [id |-> id, fk |-> fk, alias |-> Unset]

\* fetchJoinData: collectionWithCache(collection, qb, maxAge) for an array,
\* docWithCache(`${collection}/${id}`, maxAge) otherwise
joinKey(fk) == IF fk.kind = "array" THEN InKey(fk.ids) ELSE DocKey(fk.ids[1])

\* Array.prototype.sort on a list of ids
RECURSIVE sort(_)
sort(ids) ==
  IF ids = <<>> THEN <<>>
  ELSE LET m == CHOOSE i \in 1..Len(ids) : \A j \in 1..Len(ids) : ids[i] <= ids[j]
       IN  <<ids[m]>> \o sort(SubSeq(ids, 1, m - 1) \o SubSeq(ids, m + 1, Len(ids)))

idsOf(data) == [i \in 1..Len(data.docs) |-> data.docs[i]["id"]]

\* joins.filter(..).pop(), hits being the positions that pass the filter:
\* the last element that passes, undefined if none
lastMatch(joins, hits) ==
  IF hits = {} THEN Undefined
  ELSE joins[CHOOSE i \in hits : \A j \in hits : j <= i]

\* r[alias] = ... of the list branch, for an item with key fk
pickJoin(fk, joins) ==
  IF fk.kind = "array"
  THEN lastMatch(joins, {i \in 1..Len(joins) :
                           joins[i].kind = "list" /\ sort(idsOf(joins[i])) = sort(fk.ids)})
  ELSE lastMatch(joins, {i \in 1..Len(joins) :
                           joins[i].kind = "doc" /\ joins[i].docs[1]["id"] = fk.ids[1]})

\* the leftJoin operator applied to a source that delivered `items` (a list,
\* or one document when single), with a cache c at time t: the items
\* delivered downstream, which lookups read the database, the cache afterwards
leftJoinData(single, items, c, s, t, maxId) ==
  LET keyed == SelectSeq(items, LAMBDA i : i.fk.kind # "none")
      looks == [k \in 1..Len(keyed) |->
                  fetchFromCache(c, s, joinKey(keyed[k].fk), {}, t, maxId)]
      joins == [k \in 1..Len(keyed) |-> looks[k].data]
      read == {k \in 1..Len(keyed) : looks[k].read}
      fresh == [key \in {joinKey(keyed[k].fk) : k \in read} |->
                  [lastRead |-> t, data |-> sourceOf(s, key, maxId)]]
      out == IF single
             THEN [i \in 1..Len(items) |->
                     [items[i] EXCEPT !.alias =
                        Assigned(IF items[i].fk.kind # "none" THEN joins[1] ELSE NullData)]]
             ELSE [i \in 1..Len(items) |->
                     IF items[i].fk.kind # "none"
                     THEN [items[i] EXCEPT !.alias = Assigned(pickJoin(items[i].fk, joins))]
                     ELSE items[i]]
  IN  [items |-> out, reads |-> [k \in 1..Len(keyed) |-> looks[k].read],
       cache |-> fresh @@ c]

----------------------------------------------------------------------------
(* Spec: sequences of calls of both facades on a small store *)

Init ==
  /\ IdleChunks
  /\ IdleQuery
  /\ \E n \in {0, 1} : store = Prefilled(n) /\ store0 = Prefilled(n) /\ nextId = FirstFreeId(n)
  /\ now = 1
  /\ batches = <<>>
  /\ call = IdleCall
  /\ calls = 0
  /\ IdleService

Next ==
  \/ \E v \in Variants, d \in UpsertPayloads : Upsert(v, d)
  \/ \E v \in Variants, id \in CallerIds, d \in UpdatePayloads : Update(v, id, d)
  \/ \E v \in Variants, id \in CallerIds : Delete(v, id)
  \/ \E v \in Variants, qb \in Qbs : Collection(v, qb)
  \/ \E st \in SettingsValues : GetInstance(st)
  \/ \E id \in CallerIds : Doc(id)
  \/ \E id \in CallerIds : GetValueFromSnapshot("cloud", id)
  \/ \E v \in Variants, docs \in SmallLists : BulkUpsertList(NextCallAllowed, v, docs)
  \/ \E v \in Variants, qb \in Qbs, d \in UpdatePayloads :
       BulkQueryStart(NextCallAllowed, "bulkUpsert", v, qb, d, DefaultMaxSize)
  \/ \E v \in Variants, qb \in Qbs, m \in {1, DefaultMaxSize} :
       BulkQueryStart(NextCallAllowed, "bulkDelete", v, qb, EmptyDoc, m)
  \/ BulkQueryLoop
  \/ \E p \in 1..Len(batches) : CommitOk(p)
  \/ \E p \in 1..Len(batches) : CommitFail(p)
  \/ BulkSettle

Spec == Init /\ [][Next]_vars

----------------------------------------------------------------------------
(* SpecBulk: one bulk call, on lists and stores around the chunk boundaries, *)
(* from its start to the completion of every commit it started              *)

InitBulk ==
  /\ IdleChunks
  /\ IdleQuery
  /\ \E n \in BulkStoreSizes :
       store = Prefilled(n) /\ store0 = Prefilled(n) /\ nextId = FirstFreeId(n)
  /\ now = 1
  /\ batches = <<>>
  /\ call = IdleCall
  /\ calls = 0
  /\ IdleService

NextBulk ==
  \/ \E v \in Variants, docs \in BigLists : BulkUpsertList(FirstCall, v, docs)
  \/ \E v \in Variants, qb \in Qbs, d \in UpdatePayloads :
       BulkQueryStart(FirstCall, "bulkUpsert", v, qb, d, DefaultMaxSize)
  \/ \E v \in Variants, qb \in Qbs :
       BulkQueryStart(FirstCall, "bulkDelete", v, qb, EmptyDoc, DefaultMaxSize)
  \/ BulkQueryLoop
  \/ \E p \in 1..Len(batches) : CommitOk(p)
  \/ \E p \in 1..Len(batches) : CommitFail(p)
  \/ BulkSettle

SpecBulk == InitBulk /\ [][NextBulk]_vars

----------------------------------------------------------------------------
(* SpecDrain: the caller's loop around bulkDelete: the same call is repeated *)
(* until it returns no id.  No commit fails and nobody else writes.  Every   *)
(* pending step is eventually taken: the database answers every request and *)
(* the caller's loop goes on.                                                *)

\* documents in the collection at the start of the loop
DrainDocs == 4

\* calls after which the loop is cut off
MaxDrainCalls == DrainDocs + 2

DrainMaxSizes == {1, 2, DefaultMaxSize}

InitDrain ==
  /\ IdleChunks
  /\ IdleQuery
  /\ \E n \in 0..DrainDocs :
       store = Prefilled(n) /\ store0 = Prefilled(n) /\ nextId = FirstFreeId(n)
  /\ now = 1
  /\ batches = <<>>
  /\ call = IdleCall
  /\ calls = 0
  /\ IdleService

\* ids = await bulkDelete(collection, qb, maxSize), first time
DrainFirst ==
  \E v \in Variants, qb \in Qbs, m \in DrainMaxSizes :
    BulkQueryStart(FirstCall, "bulkDelete", v, qb, EmptyDoc, m)

\* while (ids.length) ids = await bulkDelete(collection, qb, maxSize)
DrainAgain ==
  BulkQueryStart(call.pc = "done" /\ call.outcome = "resolved" /\ Len(call.bulkIds) > 0
                   /\ calls < MaxDrainCalls,
                 "bulkDelete", call.variant, call.qb, EmptyDoc, call.maxSize)

NextDrain ==
  \/ DrainFirst
  \/ DrainAgain
  \/ BulkQueryLoop
  \/ \E p \in 1..Len(batches) : CommitOk(p)
  \/ BulkSettle

SpecDrain == InitDrain /\ [][NextDrain]_vars /\ WF_vars(NextDrain)

----------------------------------------------------------------------------
(* SpecRetry: a bulk call that was reported as failed is issued again with  *)
(* the same arguments (blind retry), once the commits of the failed run     *)
(* have all come back.  In the retried run no commit fails.                 *)

\* two-chunk lists: documents without id; a document with id first and last
RetryLists ==
  {Fill(BATCH_MAX_WRITES + 1), <<DocX>> \o Fill(BATCH_MAX_WRITES - 1) \o <<DocY>>}

RetryStoreSizes == {1, BATCH_MAX_WRITES + 2}

RetryMaxSizes == {BATCH_MAX_WRITES + 1, DefaultMaxSize}

InitRetry ==
  /\ IdleChunks
  /\ IdleQuery
  /\ \E n \in RetryStoreSizes :
       store = Prefilled(n) /\ store0 = Prefilled(n) /\ nextId = FirstFreeId(n)
  /\ now = 1
  /\ batches = <<>>
  /\ call = IdleCall
  /\ calls = 0
  /\ IdleService

\* the first run of the call
RetryFirst ==
  \/ \E v \in Variants, docs \in RetryLists : BulkUpsertList(FirstCall, v, docs)
  \/ \E v \in Variants, qb \in Qbs, d \in UpdatePayloads :
       BulkQueryStart(FirstCall, "bulkUpsert", v, qb, d, DefaultMaxSize)
  \/ \E v \in Variants, qb \in Qbs, m \in RetryMaxSizes :
       BulkQueryStart(FirstCall, "bulkDelete", v, qb, EmptyDoc, m)

\* the first run was rejected and none of its commits is still on its way
CanRetry ==
  /\ call.pc = "done"
  /\ call.outcome = "rejected"
  /\ calls = 1
  /\ \A h \in 1..Len(batches) : batches[h].status # "inflight"

\* catch (e) { await bulkUpsert(..same arguments..) }: the caller's retry.  The
\* builder the caller passes again is the one the first run used.
RetryAgain ==
  \/ call.form = "list" /\ BulkUpsertList(CanRetry, call.variant, call.docs)
  \/ call.form = "query"
       /\ BulkQueryStart(CanRetry, call.op, call.variant, call.qb, call.data, call.maxSize)

NextRetry ==
  \/ RetryFirst
  \/ RetryAgain
  \/ BulkQueryLoop
  \/ \E p \in 1..Len(batches) : CommitOk(p)
  \/ \E p \in 1..Len(batches) : calls = 1 /\ CommitFail(p)
  \/ BulkSettle

SpecRetry == InitRetry /\ [][NextRetry]_vars

----------------------------------------------------------------------------
(* SpecClient: reads of the client facade through its cache, joins, and     *)
(* writes to the collection the reads and joins look at, while time passes  *)
(* in the browser                                                           *)

\* times the browser clock is advanced
MaxTicks == 3

\* the clock advances by half the default age
TickStep == CACHE_MAX_AGE \div 2

\* maxAge arguments: not given, 0, a value below the default
MaxAges == {{}, {0}, {TickStep}}

\* what the joined streams deliver: lists of items, and single documents
JoinLists ==
  {<<>>, <<Item(1, NoKey)>>, <<Item(1, SingleKey(1)), Item(2, NoKey)>>,
   <<Item(1, SingleKey(3))>>, <<Item(1, ArrayKey(<<1, 2>>)), Item(2, SingleKey(2))>>,
   <<Item(1, ArrayKey(<<2, 1>>))>>, <<Item(1, ArrayKey(<<1, 3>>))>>}

JoinSingles == {Item(1, NoKey), Item(1, SingleKey(1)), Item(1, ArrayKey(<<1, 3>>))}

CachedKeys == {DocKey(1), AllKey, InKey(<<1, 2>>)}

InitClient ==
  /\ IdleChunks
  /\ IdleQuery
  /\ store = Prefilled(2) /\ store0 = Prefilled(2) /\ nextId = FirstFreeId(2)
  /\ now = 1
  /\ batches = <<>>
  /\ call = IdleCall
  /\ calls = 0
  /\ IdleService

\* Date.now() grows
ClientTick ==
  /\ clock < MaxTicks * TickStep
  /\ clock' = clock + TickStep
  /\ UNCHANGED <<chunkVars, facadeVars, queryVars, origin, instance, cache>>

\* one lookup as the call made it: the key, the maxAge the caller gave, whether
\* the database was read, the time of the call, and the age of the entry that
\* was in the cache
Lookup(key, given, read) ==
  [key |-> key, given |-> given, read |-> read, at |-> clock,
   age |-> IF key \in DOMAIN cache THEN clock - cache[key].lastRead ELSE 0]

\* a read through fetchFromCache(key, source, maxAge), the stream taken once
ReadThroughCache(op, key, given, maxAge) ==
  /\ NextCallAllowed
  /\ LET f == fetchFromCache(cache, store, key, maxAge, clock, nextId - 1)
     IN  /\ cache' = f.cache
         /\ call' = [IdleCall EXCEPT !.op = op, !.variant = "ngx", !.pc = "done",
                                     !.outcome = "resolved", !.next0 = nextId,
                                     !.delivered = f.data,
                                     !.lookups = <<Lookup(key, given, f.read)>>]
  /\ batches' = <<>>
  /\ calls' = calls + 1
  /\ store0' = store
  /\ UNCHANGED <<store, now, nextId, chunkVars, queryVars, origin, instance, clock>>

\* maxAge = CACHE_MAX_AGE: the default of a parameter that was not given
defaultMaxAge(given) == IF given = {} THEN {CACHE_MAX_AGE} ELSE given

\* FirestoreService.doc(path, maxAge = CACHE_MAX_AGE)
NgxDoc(id, given) == ReadThroughCache("doc", DocKey(id), given, defaultMaxAge(given))

\* FirestoreService.docWithCache(path, maxAge)
DocWithCache(id, given) == ReadThroughCache("docWithCache", DocKey(id), given, given)

\* FirestoreService.collection(path, qb, maxAge = CACHE_MAX_AGE)
NgxCollectionCached(key, given) ==
  ReadThroughCache("collection", key, given, defaultMaxAge(given))

\* FirestoreService.collectionWithCache(path, qb, maxAge)
CollectionWithCache(key, given) == ReadThroughCache("collectionWithCache", key, given, given)

\* FirestoreService.deleteCache(path, qb)
DeleteCache(key) ==
  /\ NextCallAllowed
  /\ key \in DOMAIN cache
  /\ cache' = [k \in DOMAIN cache \ {key} |-> cache[k]]
  /\ call' = [IdleCall EXCEPT !.op = "deleteCache", !.variant = "ngx", !.pc = "done",
                              !.outcome = "resolved", !.next0 = nextId]
  /\ batches' = <<>>
  /\ calls' = calls + 1
  /\ store0' = store
  /\ UNCHANGED <<store, now, nextId, chunkVars, queryVars, origin, instance, clock>>

\* a stream piped through leftJoin(fs, key, collection, alias) delivers once;
\* the joins come from a QueryBuilder, which holds no maxAge
Join(single, items) ==
  /\ NextCallAllowed
  /\ LET j == leftJoinData(single, items, cache, store, clock, nextId - 1)
         keyed == SelectSeq(items, LAMBDA i : i.fk.kind # "none")
     IN  /\ cache' = j.cache
         /\ call' = [IdleCall EXCEPT !.op = "leftJoin", !.variant = "ngx", !.pc = "done",
                                     !.form = IF single THEN "single" ELSE "list",
                                     !.outcome = "resolved", !.next0 = nextId,
                                     !.source = items, !.joined = j.items,
                                     !.lookups =
                                       [k \in 1..Len(keyed) |->
                                          Lookup(joinKey(keyed[k].fk), {}, j.reads[k])]]
  /\ batches' = <<>>
  /\ calls' = calls + 1
  /\ store0' = store
  /\ UNCHANGED <<store, now, nextId, chunkVars, queryVars, origin, instance, clock>>

NextClient ==
  \/ ClientTick
  \/ \E id \in {1}, g \in MaxAges : NgxDoc(id, g)
  \/ \E id \in {1}, g \in MaxAges : DocWithCache(id, g)
  \/ \E g \in MaxAges : NgxCollectionCached(AllKey, g)
  \/ \E key \in {AllKey, InKey(<<1, 2>>)}, g \in MaxAges : CollectionWithCache(key, g)
  \/ \E key \in CachedKeys : DeleteCache(key)
  \/ \E items \in JoinLists : Join(FALSE, items)
  \/ \E item \in JoinSingles : Join(TRUE, <<item>>)
  \/ \E id \in CallerIds : Delete("ngx", id)
  \/ \E id \in CallerIds, d \in UpdatePayloads : Update("ngx", id, d)

SpecClient == InitClient /\ [][NextClient]_vars

----------------------------------------------------------------------------
(* SpecQuery: a QueryBuilder is fed up to MaxFragments calls in any order   *)
(* and materialized through each of its materialization paths               *)

\* calls made on one QueryBuilder
MaxFragments == 3

WhereFrags == {<<"name", "==", 1>>, <<"age", ">", 2>>}

OrderFrags == {<<"name", "asc">>}

LimitValues == {0, 5}

LimitToLastValues == {2}

\* cursor values: two truthy field values, one falsy field value
CursorValues == {<<1, 2>>, <<0>>}

\* [idField, collection, alias]
JoinFrags ==
  {<<"companyId", "companies", "company">>, <<"companyId", "companies", "companyId">>}

InitQuery == IdleChunks /\ IdleFacade /\ IdleQuery /\ IdleService

QbCall(kind, args) ==
  /\ Len(log) < MaxFragments
  /\ builder' = applyCall(builder, [kind |-> kind, args |-> args])
  /\ log' = Append(log, [kind |-> kind, args |-> args])
  /\ native' = NoNative
  /\ UNCHANGED <<chunkVars, facadeVars, serviceVars>>

QbWhere == \E w \in WhereFrags : QbCall("where", w)

QbOrderBy == \E o \in OrderFrags : QbCall("orderBy", o)

QbLimit == \E n \in LimitValues : QbCall("limit", n)

QbLimitToLast == \E n \in LimitToLastValues : QbCall("limitToLast", n)

QbCursor == \E i \in 1..4, c \in CursorValues : QbCall(CursorKinds[i], c)

QbLeftJoin == \E j \in JoinFrags : QbCall("leftJoin", j)

\* qb.exec(ref, queryOps) / qb.build(ref)
Materialize(path) ==
  /\ native.status = "none"
  /\ LET m == materialize(path, builder)
     IN  native' = [path |-> path, status |-> m.status, constraints |-> m.constraints]
  /\ UNCHANGED <<builder, log, chunkVars, facadeVars, serviceVars>>

NextQuery ==
  \/ QbWhere
  \/ QbOrderBy
  \/ QbLimit
  \/ QbLimitToLast
  \/ QbCursor
  \/ QbLeftJoin
  \/ \E path \in Paths : Materialize(path)

SpecQuery == InitQuery /\ [][NextQuery]_vars

----------------------------------------------------------------------------
(* SpecChunks: the chunking helper on its own, on every list of             *)
(* 0..MaxListLen distinct items                                             *)

Iota(n) == [i \in 1..n |-> i]

InitChunks ==
  /\ list \in {Iota(n) : n \in 0..MaxListLen}
  /\ chunks = <<>>
  /\ chunksDone = FALSE
  /\ IdleFacade
  /\ IdleQuery
  /\ IdleService

CallArrayToChunks ==
  /\ ~chunksDone
  /\ chunks' = arrayToChunks(list, BATCH_MAX_WRITES)
  /\ chunksDone' = TRUE
  /\ UNCHANGED <<list, facadeVars, queryVars, serviceVars>>

NextChunks == CallArrayToChunks

SpecChunks == InitChunks /\ [][NextChunks]_vars

----------------------------------------------------------------------------
(* Claims *)

RECURSIVE Concat(_)
Concat(ss) == IF ss = <<>> THEN <<>> ELSE Head(ss) \o Concat(Tail(ss))

\* C1: arrayToChunks returns exactly ceil(N/C) chunks for C = BATCH_MAX_WRITES,
\* each non-empty and of size at most C, whose concatenation in chunk order is
\* the input list; for N = 0 it returns no chunks.
C1_ChunkingCorrect ==
  chunksDone =>
    LET N == Len(list)
        C == BATCH_MAX_WRITES
        k == Len(chunks)
    IN  /\ (k - 1) * C < N
        /\ N <= k * C
        /\ \A i \in 1..k : Len(chunks[i]) >= 1 /\ Len(chunks[i]) <= C
        /\ Concat(chunks) = list
        /\ (N = 0 => chunks = <<>>)

\* a list that needs a last, partial chunk after two full ones has been chunked
C1_Witness ==
  /\ chunksDone
  /\ Len(list) = 2 * BATCH_MAX_WRITES + 1
  /\ Len(chunks) = 3
  /\ Len(chunks[3]) = 1

IsBulk == call.op \in {"bulkUpsert", "bulkDelete"}

Handles == 1..Len(batches)

\* the positions of the items of chunk j in a list of N items
ChunkRange(j, N) ==
  ((j - 1) * BATCH_MAX_WRITES + 1)..Min(j * BATCH_MAX_WRITES, N)

\* C2: in a bulkUpsert or bulkDelete call over N items exactly ceil(N/500)
\* batch handles are created, chunk j is staged into handle j and nowhere
\* else, every handle has commit() called on it exactly once, and no handle
\* holds more than 500 staged writes.
C2_OneBatchPerChunk ==
  (IsBulk /\ call.pc \in {"await", "done"}) =>
    LET N == call.n
        k == Len(batches)
    IN  /\ (k - 1) * BATCH_MAX_WRITES < N
        /\ N <= k * BATCH_MAX_WRITES
        /\ call.promises = [j \in 1..k |-> j]
        /\ Len(call.bulkIds) = N
        /\ \A j \in 1..k :
             /\ batches[j].commits = 1
             /\ batches[j].status # "open"
             /\ batches[j].size <= BATCH_MAX_WRITES
             /\ batches[j].size = Cardinality(ChunkRange(j, N))
             /\ DOMAIN batches[j].staged = {call.bulkIds[i] : i \in ChunkRange(j, N)}

\* a bulkDelete over more than one chunk whose commits were all applied
C2_Witness ==
  /\ call.op = "bulkDelete"
  /\ call.pc = "done"
  /\ Len(batches) = 2
  /\ batches[1].size = BATCH_MAX_WRITES
  /\ \A j \in Handles : batches[j].status = "committed" /\ batches[j].commits = 1

\* C3: in the step in which a bulk call suspends on Promise.all, the commits
\* of all its ceil(N/500) chunks have been initiated and are in flight
\* together; none was waited for before the next was started.
C3_AllCommitsInFlight ==
  [][(call.pc # "await" /\ call'.pc = "await") =>
       LET N == call'.n
           k == Len(call'.promises)
       IN  /\ (k - 1) * BATCH_MAX_WRITES < N
           /\ N <= k * BATCH_MAX_WRITES
           /\ Cardinality({call'.promises[j] : j \in 1..k}) = k
           /\ \A j \in 1..k : batches'[call'.promises[j]].status = "inflight"]_vars

\* the commits complete in any order: the last chunk's commit is applied while
\* the first chunk's is still in flight and the call still waits
C3_Witness ==
  /\ IsBulk
  /\ call.pc = "await"
  /\ Len(call.promises) = 2
  /\ batches[call.promises[2]].status = "committed"
  /\ batches[call.promises[1]].status = "inflight"

\* C4: when a bulk call has delivered its outcome to the caller, no chunk
\* commit of that call is still in flight.
C4_NoCommitInFlightAtOutcome ==
  (IsBulk /\ call.pc = "done") =>
    \A j \in 1..Len(call.promises) : batches[call.promises[j]].status # "inflight"

Committed == {h \in Handles : batches[h].status = "committed"}

Touched == UNION {DOMAIN batches[h].staged : h \in Handles}

\* the committed handles that staged a write for document id
Writers(id) == {h \in Committed : id \in DOMAIN batches[h].staged}

\* the values the writes staged for document id by the handles W give to
\* field f, each resolved at its handle's write time
WrittenValues(W, id, f) ==
  UNION {{Resolve(batches[h].staged[id][j].data, batches[h].writeTime)[f] :
            j \in {jj \in 1..Len(batches[h].staged[id]) :
                     HasField(batches[h].staged[id][jj].data, f)}} :
         h \in W}

\* document id holds the writes of the committed handles and, beside them,
\* what it held before the call
HoldsCommittedWrites(id) ==
  LET W == Writers(id)
  IN  IF W = {} THEN DocState(store, id) = DocState(store0, id)
      ELSE IF call.op = "bulkDelete" THEN id \notin DOMAIN store
      ELSE /\ id \in DOMAIN store
           /\ \A h \in W : \A j \in 1..Len(batches[h].staged[id]) :
                DOMAIN batches[h].staged[id][j].data \subseteq DOMAIN store[id]
           /\ \A f \in DOMAIN store[id] :
                LET vs == WrittenValues(W, id, f)
                IN  IF vs = {}
                    THEN id \in DOMAIN store0 /\ HasField(store0[id], f)
                         /\ store[id][f] = store0[id][f]
                    ELSE store[id][f] \in vs

\* C5: a bulk call is reported as resolved only if every chunk's commit
\* succeeded, and as rejected once the commit of a chunk has failed; the
\* writes of a failed chunk are absent from the store, the writes of every
\* committed chunk are in it, and nothing else was changed (no rollback).
C5_FailureReportedNoRollback ==
  IsBulk =>
    /\ call.outcome = "resolved" => \A h \in Handles : batches[h].status = "committed"
    /\ (call.pc = "done" /\ \E h \in Handles : batches[h].status = "failed")
         => call.outcome = "rejected"
    /\ LET T == Touched
       IN  /\ \A id \in T : HoldsCommittedWrites(id)
           /\ \A id \in (DOMAIN store \cup DOMAIN store0) \ T :
                DocState(store, id) = DocState(store0, id)

\* a bulkUpsert of a list reported as failed: the second chunk's commit failed
\* and its documents are absent, the first chunk's documents are stored
C5_Witness ==
  /\ call.op = "bulkUpsert"
  /\ call.form = "list"
  /\ call.pc = "done"
  /\ call.outcome = "rejected"
  /\ Len(batches) = 2
  /\ batches[1].status = "committed"
  /\ batches[2].status = "failed"
  /\ DOMAIN batches[1].staged \subseteq DOMAIN store
  /\ DOMAIN batches[2].staged \cap DOMAIN store = {}

Unchanged(id) == DocState(store, id) = DocState(store0, id)

\* C6: upsert of a payload without id generates a fresh id, creates the
\* document at that id with createdTs and updatedTs, and returns the id;
\* upsert of a payload with id X writes the document X, generates no id and
\* returns X.  No other document is touched.
C6_UpsertIdPolicy ==
  (call.op = "upsert" /\ call.pc = "done") =>
    /\ ~HasField(call.data, "id") =>
         /\ call.generated
         /\ call.ret \notin DOMAIN store0 \cup CallerIds
         /\ nextId > call.next0
         /\ DOMAIN store = DOMAIN store0 \cup {call.ret}
         /\ {"createdTs", "updatedTs"} \subseteq DOMAIN store[call.ret]
         /\ store[call.ret]["name"] = call.data["name"]
    /\ (HasField(call.data, "id") /\ call.data["id"] # EmptyId) =>
         /\ ~call.generated
         /\ call.ret = call.data["id"]
         /\ nextId = call.next0
         /\ DOMAIN store = DOMAIN store0 \cup {call.ret}
         /\ store[call.ret]["name"] = call.data["name"]
    /\ \A id \in (DOMAIN store \cup DOMAIN store0) \ {call.ret} : Unchanged(id)

\* an upsert with the id of a document that exists, after an upsert that
\* generated an id
C6_Witness ==
  /\ call.op = "upsert"
  /\ call.variant = "cloud"
  /\ call.data = DocX
  /\ call.ret = 1
  /\ 1 \in DOMAIN store0
  /\ nextId > FirstFreeId(0)
  /\ store[1]["name"] = 2

\* C7: upsert and bulkUpsert (list form and query form) persist no field
\* named id: a stored body has an id field after such a call only if it had
\* one before the call.
C7_IdNeverPersisted ==
  call.op \in {"upsert", "bulkUpsert"} =>
    \A i \in DOMAIN store :
      HasField(store[i], "id") => (i \in DOMAIN store0 /\ HasField(store0[i], "id"))

\* the id a reader of the document at `id` gets: the cloud facade spreads the
\* body over the id, the client facade reads with idField 'id'
DocId(variant, s, id) == IF variant = "cloud" THEN CloudDocId(s, id) ELSE id

\* C8: update(path X, data) in either variant changes only the document X,
\* persists no id field from the payload, and the document is read back with
\* id X afterwards.
C8_UpdateStripsId ==
  (call.op = "update" /\ call.outcome = "resolved") =>
    LET X == call.target
    IN  /\ DOMAIN store = DOMAIN store0
        /\ \A i \in DOMAIN store \ {X} : store[i] = store0[i]
        /\ HasField(store[X], "id") => HasField(store0[X], "id")
        /\ DocId(call.variant, store0, X) = X => DocId(call.variant, store, X) = X

NoCreatedTsInPayload ==
  /\ ~HasField(call.data, "createdTs")
  /\ \A j \in 1..Len(call.docs) : ~HasField(call.docs[j], "createdTs")

\* C9: createdTs is set once: a document that had a createdTs before an
\* upsert, bulkUpsert or update still has that value after it (stated for
\* calls whose payloads carry no createdTs of their own).
C9_CreatedTsSetOnce ==
  (call.op \in {"upsert", "bulkUpsert", "update"} /\ NoCreatedTsInPayload) =>
    \A i \in DOMAIN store \cap DOMAIN store0 :
      HasField(store0[i], "createdTs") =>
        (HasField(store[i], "createdTs") /\ store[i]["createdTs"] = store0[i]["createdTs"])

\* C10: every write of upsert, update and bulkUpsert stores updatedTs equal
\* to the server time of that write, never a value from the payload.
C10_UpdatedTsIsServerTime ==
  /\ (call.op \in {"upsert", "update"} /\ call.outcome = "resolved") =>
       (HasField(store[call.target], "updatedTs") /\ store[call.target]["updatedTs"] = now)
  /\ call.op = "bulkUpsert" =>
       \A id \in Touched :
         Writers(id) # {} =>
           /\ HasField(store[id], "updatedTs")
           /\ store[id]["updatedTs"] \in {batches[h].writeTime : h \in Writers(id)}

\* what bulkUpsert(list) did for element j: the id it pushed was generated by
\* this call, and the writes it staged for that id
BulkGenerated(j) == call.bulkIds[j] >= call.next0

StagedFor(id) ==
  UNION {{batches[h].staged[id][k] : k \in 1..Len(batches[h].staged[id])} :
         h \in {hh \in Handles : id \in DOMAIN batches[hh].staged}}

\* C11: bulkUpsert of a list handles every element d as upsert(collection, d)
\* does: one write per element, a generated id exactly when upsert generates
\* one, the caller's id otherwise, and the same data handed to the database.
C11_BulkUpsertAsUpsert ==
  (call.op = "bulkUpsert" /\ call.form = "list" /\ call.pc \in {"await", "done"}) =>
    /\ Len(call.bulkIds) = Len(call.docs)
    /\ \A j \in 1..Len(call.docs) :
         LET u == upsertPlan(call.variant, call.docs[j], call.bulkIds[j])
         IN  /\ BulkGenerated(j) = u.generated
             /\ call.bulkIds[j] = u.id
             /\ SetOp(u.data) \in StagedFor(call.bulkIds[j])

\* the elements of the list that carry an id of their own
CarriesId(d) == HasField(d, "id") /\ d["id"] # EmptyId

\* C12: a bulkUpsert that resolved returns one id per input document: the
\* document's own id where it carried one, otherwise an id generated by this
\* call, distinct from every other generated id, under which the document was
\* written; and every returned id names a stored document.  For the query
\* form the returned ids are the ids of the matched documents.
C12_BulkUpsertReturnsIds ==
  (call.op = "bulkUpsert" /\ call.pc = "done" /\ call.outcome = "resolved") =>
    /\ \A j \in 1..Len(call.bulkIds) : call.bulkIds[j] \in DOMAIN store
    /\ call.form = "query" => call.bulkIds = call.items
    /\ call.form = "list" =>
         LET gen == {j \in 1..Len(call.docs) : ~CarriesId(call.docs[j])}
         IN  /\ Len(call.bulkIds) = Len(call.docs)
             /\ \A j \in 1..Len(call.docs) :
                  /\ CarriesId(call.docs[j]) => call.bulkIds[j] = call.docs[j]["id"]
                  /\ ~CarriesId(call.docs[j]) =>
                       /\ call.bulkIds[j] >= call.next0
                       /\ call.bulkIds[j] \notin DOMAIN store0
                  /\ SetOp(BulkDoc(call.docs[j])) \in StagedFor(call.bulkIds[j])
             /\ Cardinality({call.bulkIds[j] : j \in gen}) = Cardinality(gen)

\* a resolved two-chunk bulkUpsert whose first document carried the id 1 and
\* whose last document got a generated id
C12_Witness ==
  /\ call.op = "bulkUpsert"
  /\ call.form = "list"
  /\ call.outcome = "resolved"
  /\ Len(call.docs) = BATCH_MAX_WRITES + 1
  /\ call.docs[1] = DocX
  /\ call.bulkIds[1] = 1
  /\ call.bulkIds[BATCH_MAX_WRITES + 1] >= call.next0
  /\ call.bulkIds[BATCH_MAX_WRITES + 1] \in DOMAIN store

\* the documents a call removed from the store
Deleted == DOMAIN store0 \ DOMAIN store

\* C13: a bulkDelete(collection, qb, maxSize) that resolved deleted at most
\* maxSize documents and returned exactly the ids of the documents it
\* deleted, with or without a QueryBuilder from the caller.
C13_BulkDeleteAtMostMaxSize ==
  (call.op = "bulkDelete" /\ call.pc = "done" /\ call.outcome = "resolved") =>
    /\ Cardinality(Deleted) <= call.maxSize
    /\ Len(call.bulkIds) <= call.maxSize
    /\ {call.bulkIds[j] : j \in 1..Len(call.bulkIds)} = Deleted
    /\ Len(call.bulkIds) = Cardinality(Deleted)

\* the stored documents the filters of the call's query select
MatchingSet(s) == {i \in DOMAIN s : Matches(s[i], call.qb.where)}

\* the loop has ended: the last call returned no id
Drained ==
  call.op = "bulkDelete" /\ call.pc = "done" /\ call.outcome = "resolved"
    /\ Len(call.bulkIds) = 0

\* a call of the loop that returned ids removed matching documents, and
\* after the call that returned none no matching document is stored
DrainStep ==
  (call.op = "bulkDelete" /\ call.pc = "done") =>
    /\ call.outcome = "resolved"
    /\ Len(call.bulkIds) > 0 =>
         /\ MatchingSet(store) \subseteq MatchingSet(store0)
         /\ MatchingSet(store) # MatchingSet(store0)
    /\ Len(call.bulkIds) = 0 => MatchingSet(store) = {}

\* C14: without commit failures and concurrent writers, repeating bulkDelete
\* with the same query until it returns no id ends after finitely many calls;
\* every call before the last shrinks the set of matching documents, and at
\* the end no matching document is left.
C14_DrainTerminates == []DrainStep /\ <>[](Drained /\ MatchingSet(store) = {})

\* the loop ended at its third call, after two calls that deleted documents
C14_Witness ==
  /\ Drained
  /\ calls = 3
  /\ DOMAIN store # {}
  /\ MatchingSet(store) = {}

\* C15: leftJoin with the foreign-key field as alias fails at that call: no
\* QueryBuilder ever holds a join whose alias is its key field.
C15_LeftJoinRejectsKeyAsAlias ==
  \A i \in 1..Len(builder.joins) : builder.joins[i][1] # builder.joins[i][3]

\* the calls of a log grouped by kind, the order within each kind kept
OfKind(l, kind) == SelectSeq(l, LAMBDA c : c.kind = kind)

ByKind(l) ==
  OfKind(l, "where") \o OfKind(l, "orderBy") \o OfKind(l, "limit")
    \o OfKind(l, "limitToLast") \o OfKind(l, "startAt") \o OfKind(l, "startAfter")
    \o OfKind(l, "endAt") \o OfKind(l, "endBefore") \o OfKind(l, "leftJoin")

\* the builder a sequence of calls leaves behind
RECURSIVE Replay(_, _)
Replay(q, l) == IF l = <<>> THEN q ELSE Replay(applyCall(q, Head(l)), Tail(l))

\* C16: the native query does not depend on how calls of different kinds
\* were interleaved: on every path the builder materializes to what the
\* builder fed the same calls grouped by kind materializes to.
C16_InterleavingIrrelevant ==
  /\ builder = Replay(NewQuerySpec, log)
  /\ \A path \in Paths :
       materialize(path, builder) = materialize(path, Replay(NewQuerySpec, ByKind(log)))
  /\ native.status # "none" =>
       LET m == materialize(native.path, Replay(NewQuerySpec, ByKind(log)))
       IN  native.status = m.status /\ native.constraints = m.constraints

\* orderBy(b).where(a).limit(5) materialized as where(a), orderBy(b), limit(5)
C16_Witness ==
  /\ Len(log) = 3
  /\ log[1].kind = "orderBy" /\ log[2].kind = "where" /\ log[3].kind = "limit"
  /\ native.path = "exec"
  /\ native.constraints =
       <<Constraint("where", log[2].args), Constraint("orderBy", log[1].args),
         Constraint("limit", <<5>>)>>

\* the place of a constraint kind in the fixed order of materialization
KindOrder ==
  <<"where", "orderBy", "limit", "limitToLast", "startAt", "startAfter", "endAt", "endBefore">>

Rank(kind) == CHOOSE r \in 1..Len(KindOrder) : KindOrder[r] = kind

\* the arguments of the calls of one kind, in call order
ArgsOf(l, kind) == [i \in 1..Len(OfKind(l, kind)) |-> OfKind(l, kind)[i].args]

LastArgs(l, kind) == ArgsOf(l, kind)[Len(ArgsOf(l, kind))]

\* the values a native limit or cursor constraint carries: the client paths
\* of exec spread them, the other paths pass them as one argument
Carried(path, c) ==
  IF c.kind \in {"limit", "limitToLast"} THEN c.args[1]
  ELSE IF path \in {"exec", "execEarlier"} THEN c.args ELSE c.args[1]

\* C17: a materialized query lists its constraints in the fixed order where,
\* orderBy, limit, limitToLast, startAt, startAfter, endAt, endBefore; the
\* where and orderBy constraints are those of all the calls in call order;
\* of limit, limitToLast and each cursor there is at most one constraint, and
\* it carries the value of the last call of its kind.
C17_FixedMaterializationOrder ==
  native.status = "ok" =>
    LET cs == native.constraints
    IN  /\ \A i \in 1..Len(cs) : \A j \in 1..Len(cs) :
             i < j => /\ Rank(cs[i].kind) <= Rank(cs[j].kind)
                      /\ Rank(cs[i].kind) > 2 => Rank(cs[i].kind) < Rank(cs[j].kind)
        /\ \A kind \in {"where", "orderBy"} :
             ArgsOf(cs, kind) = ArgsOf(log, kind)
        /\ \A i \in 1..Len(cs) :
             Rank(cs[i].kind) > 2 =>
               /\ OfKind(log, cs[i].kind) # <<>>
               /\ Carried(native.path, cs[i]) = LastArgs(log, cs[i].kind)

\* startAt(1, 2), limit(5), where(..) materialized on the server-side path
C17_Witness ==
  /\ Len(log) = 3
  /\ log[1] = [kind |-> "startAt", args |-> <<1, 2>>]
  /\ log[2] = [kind |-> "limit", args |-> 5]
  /\ log[3].kind = "where"
  /\ native.path = "execQueryForCloud"
  /\ native.constraints =
       <<Constraint("where", log[3].args), Constraint("limit", <<5>>),
         Constraint("startAt", <<(<<1, 2>>)>>)>>

\* C18: a QueryBuilder on which nothing was set materializes, on every
\* path, to the reference itself (no constraint) and raises no error.
C18_EmptyBuilderUnfiltered ==
  (log = <<>> /\ native.status # "none") =>
    (native.status = "ok" /\ native.constraints = <<>>)

\* C19: every limit, limitToLast and cursor set on the builder is applied to
\* the native query with the value of its last call, whatever that value is.
C19_SetFragmentsApplied ==
  native.status = "ok" =>
    \A r \in 3..Len(KindOrder) :
      OfKind(log, KindOrder[r]) # <<>> =>
        \E i \in 1..Len(native.constraints) :
          /\ native.constraints[i].kind = KindOrder[r]
          /\ Carried(native.path, native.constraints[i]) = LastArgs(log, KindOrder[r])

\* C20: a listing returns one item per document the query delivers, in the
\* order of delivery, and the id field of each item is the id of the stored
\* document it was read from.
C20_ListingCarriesDocumentId ==
  call.op = "collection" =>
    /\ Len(call.listed) = Len(call.items)
    /\ \A j \in 1..Len(call.items) :
         /\ call.items[j] \in DOMAIN store
         /\ HasField(call.listed[j], "id")
         /\ call.listed[j]["id"] = call.items[j]
         /\ Omit(call.listed[j], "id") = Omit(store[call.items[j]], "id")

C22_DeleteIdempotent ==
  (call.op = "delete" /\ call.prev.op = "delete" /\ call.prev.target = call.target) =>
    /\ call.prev.outcome = "resolved"
    /\ call.outcome = "resolved"
    /\ store = store0
    /\ call.target \notin DOMAIN store

\* the stored document 1 was deleted, and deleted again
C22_Witness ==
  /\ call.op = "delete"
  /\ call.prev = [op |-> "delete", target |-> 1, outcome |-> "resolved"]
  /\ call.target = 1
  /\ calls = 2
  /\ DOMAIN store0 = {}
  /\ call.outcome = "resolved"

\* the documents of a list that carry an id of their own, and the others
OwnIds(docs) == {docs[j]["id"] : j \in {jj \in 1..Len(docs) : CarriesId(docs[jj])}}

IdLess(docs) == {j \in 1..Len(docs) : ~CarriesId(docs[j])}

Elements(ids) == {ids[j] : j \in 1..Len(ids)}

\* C23: a bulk call retried after a run that failed part-way leaves the
\* documents one fully successful run on the original store leaves: for
\* bulkUpsert of a list the original documents, the documents named by the
\* list, and one new document per element without id; for the query form
\* the original documents; for bulkDelete the original documents less those
\* the query selects in the original store.
C23_BlindRetrySafe ==
  (calls = 2 /\ call.pc = "done" /\ call.outcome = "resolved") =>
    IF call.op = "bulkDelete"
    THEN DOMAIN store =
           DOMAIN origin
             \ Elements(getDocs(origin, collectionQuery(call.variant, call.qb), nextId - 1))
    ELSE IF call.form = "query" THEN DOMAIN store = DOMAIN origin
    ELSE /\ DOMAIN origin \cup OwnIds(call.docs) \subseteq DOMAIN store
         /\ Cardinality(DOMAIN store) =
              Cardinality(DOMAIN origin \cup OwnIds(call.docs))
                + Cardinality(IdLess(call.docs))

\* C24: after the join every item without a value at the foreign-key field
\* is as the source delivered it, with no alias field, for a list and for a
\* single document.
C24_JoinLeavesKeylessItems ==
  call.op = "leftJoin" =>
    /\ Len(call.joined) = Len(call.source)
    /\ \A i \in 1..Len(call.source) :
         call.source[i].fk = NoKey =>
           (call.joined[i] = call.source[i] /\ ~call.joined[i].alias.set)

\* what the target collection holds for a foreign key: the document with
\* that id, or the existing documents whose ids are in the array
Referenced(fk) ==
  IF fk.kind = "array" THEN collectionValueChanges(store, InKey(fk.ids), nextId - 1)
  ELSE docValueChanges(store, fk.ids[1])

\* C25: after the join every item with a foreign key has, under the alias,
\* the referenced data of the target collection: for a single key the
\* document with that id (where one exists), for an array of keys the list
\* of the existing documents whose ids are in the array.
C25_JoinAssignsReferenced ==
  call.op = "leftJoin" =>
    \A i \in 1..Len(call.source) :
      LET fk == call.source[i].fk
      IN  (fk # NoKey /\ (fk.kind = "single" => fk.ids[1] \in DOMAIN store)) =>
            /\ call.joined[i].alias = Assigned(Referenced(fk))
            /\ call.joined[i].id = call.source[i].id
            /\ call.joined[i].fk = fk

\* C26: every call of getInstance returns the one instance, and once the
\* instance exists no step initializes it again or changes its state.
C26_InstanceInitializedOnce ==
  [][/\ (call'.op = "getInstance" /\ calls' # calls) => call'.ret = 1
     /\ instance.created => instance' = instance]_vars

\* C27: a bulkDelete given a QueryBuilder deletes only documents that the
\* builder as the caller built it selects (its filters and its own limit),
\* at most n documents when the caller set limit(n), and the builder is
\* afterwards as the caller built it.
C27_BulkDeleteRespectsCallerQuery ==
  (call.op = "bulkDelete" /\ call.qb0.defined) =>
    /\ call.qb = call.qb0
    /\ (call.pc = "done" /\ call.outcome = "resolved") =>
         /\ Deleted \subseteq Elements(getDocs(store0, exec(call.qb0), nextId - 1))
         /\ \A n \in call.qb0.limit : Cardinality(Deleted) <= n

\* the writes a handle staged for a document id
StagedIn(h, id) ==
  IF id \in DOMAIN batches[h].staged
  THEN {batches[h].staged[id][k] : k \in 1..Len(batches[h].staged[id])}
  ELSE {}

\* C28: the id list of bulkUpsert(list) is aligned with the list: it has
\* the length of the input, and its i-th id is the id under which the i-th
\* document was staged, in the batch of the chunk the document belongs to;
\* once that batch is committed the document is stored under that id.  This
\* holds while the commits are in flight and in whatever order they complete.
C28_BulkIdsAligned ==
  (call.op = "bulkUpsert" /\ call.form = "list" /\ call.pc \in {"await", "done"}
     /\ call.outcome # "rejected" /\ PromiseAll(PromiseStatuses) # "rejected") =>
    /\ Len(call.bulkIds) = Len(call.docs)
    /\ \A i \in 1..Len(call.docs) :
         LET h == Ceil(i, BATCH_MAX_WRITES)
             id == call.bulkIds[i]
         IN  /\ SetOp(BulkDoc(call.docs[i])) \in StagedIn(h, id)
             /\ CarriesId(call.docs[i]) => id = call.docs[i]["id"]
             /\ batches[h].status = "committed" =>
                  /\ id \in DOMAIN store
                  /\ id >= call.next0 => store[id]["name"] = call.docs[i]["name"]

\* a resolved bulkUpsert of 501 documents whose second chunk was committed
\* before its first
C28_Witness ==
  /\ call.op = "bulkUpsert"
  /\ call.form = "list"
  /\ call.pc = "done"
  /\ call.outcome = "resolved"
  /\ Len(call.docs) = BATCH_MAX_WRITES + 1
  /\ Len(call.bulkIds) = BATCH_MAX_WRITES + 1
  /\ batches[2].writeTime < batches[1].writeTime
  /\ call.bulkIds[BATCH_MAX_WRITES + 1] \in DOMAIN batches[2].staged
  /\ call.bulkIds[BATCH_MAX_WRITES + 1] \in DOMAIN store

\* C29: for one accumulated QuerySpec the client materialization and the
\* server-side materialization apply the same constraints, with the same
\* arguments, in the same order: exec with query operators against
\* execQueryForCloud, and build against buildQueryForCloud.
C29_ClientAndCloudAgree ==
  /\ execClient(builder).constraints = execQueryForCloud(builder).constraints
  /\ build(builder).constraints = buildQueryForCloud(builder).constraints

\* the max age that applies to a lookup: the caller's, or the default
Applicable(given) == IF given = {} THEN CACHE_MAX_AGE ELSE CHOOSE m \in given : TRUE

\* C30: a lookup is answered from the cache only if the caller's maxAge is
\* not 0 and the entry is no older than the applicable max age (the caller's,
\* or CACHE_MAX_AGE when none was given); a lookup that read the database
\* left the entry with the time of the read and what was read.  This holds
\* for doc, collection, docWithCache, collectionWithCache and the lookups
\* of leftJoin.
C30_CacheRespectsMaxAge ==
  \A k \in 1..Len(call.lookups) :
    LET l == call.lookups[k]
    IN  /\ ~l.read => (l.given # {0} /\ l.age <= Applicable(l.given))
        /\ l.read =>
             /\ l.key \in DOMAIN cache
             /\ cache[l.key].lastRead = l.at
             /\ call.op # "leftJoin" => cache[l.key].data = call.delivered

====
